---------------------------- MODULE Spec2Model ----------------------------
(***************************************************************************)
(* Model of the BuddyPress release-cycle build system:                     *)
(*   - build-complete.sh   the shell orchestrator (Steps 1-9)              *)
(*   - Gruntfile-enhanced.js  the Grunt tasks build-zip, build-release,    *)
(*                            build-clean and the tasks they queue         *)
(* The file system is a function from paths to contents; paths, versions   *)
(* and archive names are strings, matched by the globs the code uses.      *)
(***************************************************************************)
EXTENDS Integers, Sequences, FiniteSets, TLC

(***************************************************************************)
(* Strings                                                                 *)
(***************************************************************************)
Ch(s, i) == SubSeq(s, i, i)

HasPrefix(s, p) == Len(s) >= Len(p) /\ SubSeq(s, 1, Len(p)) = p

HasSuffix(s, p) == Len(s) >= Len(p) /\ SubSeq(s, Len(s) - Len(p) + 1, Len(s)) = p

DropPrefix(s, p) == SubSeq(s, Len(p) + 1, Len(s))

\* positions at which sub occurs in s
Occurrences(s, sub) ==
    {i \in 1..(Len(s) - Len(sub) + 1) : SubSeq(s, i, i + Len(sub) - 1) = sub}

Contains(s, sub) == Occurrences(s, sub) # {}

Max(S) == CHOOSE m \in S : \A x \in S : x <= m

Min(S) == CHOOSE m \in S : \A x \in S : m <= x

\* the lines of a text, split at "\n" (a trailing newline ends the last line)
RECURSIVE Lines(_)
Lines(s) ==
    IF s = "" THEN <<>>
    ELSE LET nl == Occurrences(s, "\n")
         IN  IF nl = {} THEN <<s>>
             ELSE <<SubSeq(s, 1, Min(nl) - 1)>> \o Lines(SubSeq(s, Min(nl) + 1, Len(s)))

\* the path's segments, split at "/"
RECURSIVE Segments(_)
Segments(p) ==
    LET sl == Occurrences(p, "/")
    IN  IF sl = {} THEN <<p>>
        ELSE <<SubSeq(p, 1, Min(sl) - 1)>> \o Segments(SubSeq(p, Min(sl) + 1, Len(p)))

RECURSIVE JoinWith(_, _)
JoinWith(ss, sep) ==
    IF ss = <<>> THEN ""
    ELSE IF Len(ss) = 1 THEN ss[1]
    ELSE ss[1] \o sep \o JoinWith(Tail(ss), sep)

\* sed 's/[ ]*$//'
RECURSIVE StripTrailingSpaces(_)
StripTrailingSpaces(s) ==
    IF s # "" /\ Ch(s, Len(s)) = " " THEN StripTrailingSpaces(SubSeq(s, 1, Len(s) - 1))
    ELSE s

RECURSIVE StripLeadingSpaces(_)
StripLeadingSpaces(s) ==
    IF s # "" /\ Ch(s, 1) = " " THEN StripLeadingSpaces(SubSeq(s, 2, Len(s)))
    ELSE s

IsSpaceChar(c) == c \in {" ", "\t", "\n", "\r"}

\* String.prototype.trim
RECURSIVE JsTrim(_)
JsTrim(s) ==
    IF s # "" /\ IsSpaceChar(Ch(s, 1)) THEN JsTrim(SubSeq(s, 2, Len(s)))
    ELSE IF s # "" /\ IsSpaceChar(Ch(s, Len(s))) THEN JsTrim(SubSeq(s, 1, Len(s) - 1))
    ELSE s

(***************************************************************************)
(* JavaScript values of pkg.version: undefined, or a string                *)
(***************************************************************************)
JsUndefined == [def |-> FALSE, str |-> ""]

JsStr(s) == [def |-> TRUE, str |-> s]

Truthy(v) == v.def /\ v.str # ""

\* a || b
JsOr(a, b) == IF Truthy(a) THEN a ELSE b

\* 'x' + v
JsToString(v) == IF v.def THEN v.str ELSE "undefined"

(***************************************************************************)
(* Version resolution                                                      *)
(***************************************************************************)
FallbackVersion == "11.5.1"

VersionKey == "Version:"

RECURSIVE StripTrailingNewlines(_)
StripTrailingNewlines(s) ==
    IF s # "" /\ Ch(s, Len(s)) = "\n" THEN StripTrailingNewlines(SubSeq(s, 1, Len(s) - 1))
    ELSE s

\* sed 's/.*Version:[ ]*//' | sed 's/[ ]*$//' on one line that grep selected
SedVersion(line) ==
    LET last == Max(Occurrences(line, VersionKey))
        rest == SubSeq(line, last + Len(VersionKey), Len(line))
    IN  StripTrailingSpaces(StripLeadingSpaces(rest))

RECURSIVE SedLines(_)
SedLines(ls) ==
    IF ls = <<>> THEN <<>>
    ELSE IF Contains(Head(ls), VersionKey)
         THEN <<SedVersion(Head(ls))>> \o SedLines(Tail(ls))
         ELSE SedLines(Tail(ls))

\* $(grep "Version:" path | sed ... | sed ...): empty when the file is missing
\* (grep fails, the pipeline's status is that of the last sed)
GrepText(text) == StripTrailingNewlines(JoinWith(SedLines(Lines(text)), "\n"))

\* the headers of the start trees, and what the pipeline makes of each, worked
\* out once
KnownHeaders ==
    {"<?php\n/**\n * Plugin Name: BuddyPress\n * Version: " \o v \o "  \n */\n" :
        v \in {"11.5.1", "2.3.0", "1.0.0"}}
      \cup {"<?php\n/**\n * Plugin Name: BuddyPress\n */\n"}

VersionTable == [t \in KnownHeaders |-> GrepText(t)]

GrepVersion(files, path) ==
    IF path \notin DOMAIN files THEN ""
    ELSE IF files[path] \in KnownHeaders THEN VersionTable[files[path]]
    ELSE GrepText(files[path])

\* VERSION of build-complete.sh
ShellVersion(files) ==
    LET v1 == GrepVersion(files, "src/bp-loader.php")
    IN  IF v1 = "" THEN GrepVersion(files, "bp-loader.php") ELSE v1

\* text.match(/Version:\s*(.+)/): the leftmost match, \s* greedy, "." any
\* character but a line terminator
IsLineEnd(c) == c \in {"\n", "\r"}

RECURSIVE SpaceRun(_, _)
SpaceRun(s, i) ==
    IF i <= Len(s) /\ IsSpaceChar(Ch(s, i)) THEN 1 + SpaceRun(s, i + 1) ELSE 0

RECURSIVE DotRun(_, _)
DotRun(s, i) ==
    IF i <= Len(s) /\ ~IsLineEnd(Ch(s, i)) THEN 1 + DotRun(s, i + 1) ELSE 0

VersionMatch(text) ==
    LET starts(i) == {q \in (i + Len(VersionKey))..(i + Len(VersionKey) + SpaceRun(text, i + Len(VersionKey))) :
                        DotRun(text, q) > 0}
        hits == {i \in Occurrences(text, VersionKey) : starts(i) # {}}
    IN  IF hits = {} THEN [matched |-> FALSE, group |-> ""]
        ELSE LET q == Max(starts(Min(hits)))
             IN  [matched |-> TRUE, group |-> SubSeq(text, q, q + DotRun(text, q) - 1)]

\* compress.production.options.archive
ProductionArchive(files, pkgv) ==
    LET version == JsOr(pkgv, JsStr(FallbackVersion))
        m == IF "src/bp-loader.php" \in DOMAIN files
             THEN VersionMatch(files["src/bp-loader.php"])
             ELSE [matched |-> FALSE, group |-> ""]
        version2 == IF ~Truthy(version) /\ "src/bp-loader.php" \in DOMAIN files /\ m.matched
                    THEN JsStr(JsTrim(m.group))
                    ELSE version
    IN  "buddypress-" \o JsToString(version2) \o ".zip"

\* compress.development.options.archive
DevelopmentArchive(pkgv) ==
    "buddypress-" \o JsToString(JsOr(pkgv, JsStr(FallbackVersion))) \o "-dev.zip"

\* ZIP_NAME and DEV_ZIP_NAME of build-complete.sh
ZipName(version) == "buddypress-" \o version \o ".zip"

DevZipName(version) == "buddypress-" \o version \o "-dev.zip"

(***************************************************************************)
(* The file system: a function from paths to contents.  A path ending in   *)
(* "/" marks a directory that holds nothing.                               *)
(***************************************************************************)
Restrict(f, S) == [p \in S |-> f[p]]

Under(files, dir) == {p \in DOMAIN files : HasPrefix(p, dir \o "/")}

\* [ -d dir ]
DirExists(files, dir) == Under(files, dir) # {}

\* [ -n "$(ls -A dir)" ]
DirNonEmpty(files, dir) == Under(files, dir) \ {dir \o "/"} # {}

\* [ -f path ]
FileExists(files, path) == path \in DOMAIN files /\ ~HasSuffix(path, "/")

\* an rm -rf that removes nothing
KeepTree(files, dir) == files

\* rm -rf dir
RemoveTree(files, dir) == Restrict(files, DOMAIN files \ Under(files, dir))

\* mkdir -p dir
MkDir(files, dir) ==
    IF DirExists(files, dir) THEN files ELSE ((dir \o "/") :> "dir") @@ files

\* a directory marker goes when the directory holds something
Normalize(files) ==
    Restrict(files, {p \in DOMAIN files :
                        HasSuffix(p, "/") => Under(files, SubSeq(p, 1, Len(p) - 1)) = {p}})

\* the files written over files (new contents win)
WriteAll(files, new) == Normalize(new @@ files)

\* the first path segment of p below dir
TopEntry(p, dir) == SubSeq(p, Len(dir) + 2, Min({Len(p) + 1} \cup
                        {i \in (Len(dir) + 2)..Len(p) : SubSeq(p, i, i) = "/"}) - 1)

\* the paths the shell glob dir/* selects, with everything below them
StarUnder(files, dir) ==
    {p \in Under(files, dir) : TopEntry(p, dir) # "" /\ ~HasPrefix(TopEntry(p, dir), ".")}

\* the files of `sel` (paths below `from`) as they land below `to`
Moved(files, sel, from, to) ==
    [q \in {to \o DropPrefix(p, from) : p \in sel} |->
        files[CHOOSE p \in sel : to \o DropPrefix(p, from) = q]]

(***************************************************************************)
(* The project tree the build starts from                                  *)
(***************************************************************************)
\* the component directories of a complete build, and its loader
Components ==
    {"bp-activity", "bp-blogs", "bp-core", "bp-friends", "bp-groups", "bp-members",
     "bp-messages", "bp-notifications", "bp-settings", "bp-templates", "bp-xprofile"}

RequiredEntries == Components \cup {"bp-loader.php"}

HeaderWith(v) == "<?php\n/**\n * Plugin Name: BuddyPress\n * Version: " \o v \o "  \n */\n"

HeaderNoVersion == "<?php\n/**\n * Plugin Name: BuddyPress\n */\n"

Files(paths, content) == [p \in paths |-> content]

BaseTree ==
    Files({"package.json", "Gruntfile.js", "Gruntfile-enhanced.js", "build-complete.sh"}, "file")

Empty == [p \in {} |-> ""]

\* the ways a project tree may be laid out, one choice per aspect
SrcTree(k) ==
    CASE k = "full"    -> Files({"src/" \o c \o "/index.php" : c \in Components}, "php")
                             @@ Files({"src/readme.txt"}, "src doc")
      [] k = "partial" -> Files({"src/bp-core/index.php", "src/.htaccess"}, "php")
      [] k = "none"    -> Empty

SrcHeader(k) ==
    CASE k = "none"      -> Empty
      [] k = "noversion" -> Files({"src/bp-loader.php"}, HeaderNoVersion)
      [] OTHER           -> Files({"src/bp-loader.php"}, HeaderWith(k))

RootHeader(k) ==
    CASE k = "none" -> Empty
      [] OTHER      -> Files({"bp-loader.php"}, HeaderWith(k))

PkgVersion(k) ==
    CASE k = "undefined" -> JsUndefined
      [] OTHER           -> JsStr(k)

\* files no distribution should carry
JunkTree(k) ==
    CASE k = "no"  -> Empty
      [] k = "yes" -> Files({".git/config", ".svn/entries", ".DS_Store", "src/.DS_Store",
                             "assets/pack.zip", "old-release.zip", "debug.log"}, "junk")

DocTree(k) ==
    CASE k = "no"  -> Empty
      [] k = "yes" -> Files({"readme.txt", "README.md", "license.txt"}, "doc")

\* what an earlier run left behind
StaleTree(k) ==
    CASE k = "no"  -> Empty
      [] k = "yes" -> Files({"build/old.php", "build/readme.txt"}, "stale")

StaleZips(k) ==
    CASE k = "no"  -> Empty
      [] k = "yes" -> [n \in {"buddypress-9.9.zip", "buddypress-9.9-dev.zip",
                              "buddypress-11.5.1.zip"} |->
                         [entries |-> {"buddypress/old.php"}, by |-> "earlier run"]]

NodeModules(k) ==
    CASE k = "no"  -> Empty
      [] k = "yes" -> Files({"node_modules/grunt/index.js",
                             "node_modules/grunt-contrib-compress/index.js"}, "js")

VendorTree(k) ==
    CASE k = "no"  -> Empty
      [] k = "yes" -> Files({"vendor/bin/phpcs"}, "php")

ValidatorTree(k) ==
    CASE k = "no"  -> Empty
      [] k = "yes" -> Files({"validate-build.sh"}, "sh")

Layouts ==
    [src : {"full", "partial", "none"},
     header : {"11.5.1", "2.3.0", "noversion", "none"},
     rootHeader : {"none", "1.0.0"},
     pkg : {"11.5.1", "", "undefined"},
     junk : {"yes", "no"},
     docs : {"yes", "no"},
     stale : {"yes", "no"},
     nodeModules : {"yes", "no"},
     vendor : {"yes", "no"},
     validator : {"yes", "no"}]

\* the layout of the README: the versions agree and every tool's files are there
StandardLayout ==
    [src |-> "full", header |-> "11.5.1", rootHeader |-> "none", pkg |-> "11.5.1",
     junk |-> "yes", docs |-> "yes", stale |-> "yes", nodeModules |-> "yes",
     vendor |-> "yes", validator |-> "yes"]

\* the aspects in which a layout departs from the standard one
Departures(l) == {k \in DOMAIN StandardLayout : l[k] # StandardLayout[k]}

\* a start tree departs from the standard layout in at most this many aspects
MaxDepartures == 2

TreeOf(l) ==
    BaseTree @@ SrcTree(l.src) @@ SrcHeader(l.header) @@ RootHeader(l.rootHeader)
        @@ JunkTree(l.junk) @@ DocTree(l.docs) @@ StaleTree(l.stale)
        @@ NodeModules(l.nodeModules) @@ VendorTree(l.vendor) @@ ValidatorTree(l.validator)

(***************************************************************************)
(* Globs.  GlobMatch is the matcher of zip -x: "*" matches any run of      *)
(* characters, "/" included, and a backslash quotes the next character.    *)
(* SegMatch is one path segment of a shell or minimatch glob: "*" does not *)
(* match "/" and a leading "." is matched only by a literal ".".           *)
(***************************************************************************)
RECURSIVE GlobFrom(_, _, _, _)
GlobFrom(pat, i, s, j) ==
    IF i > Len(pat) THEN j > Len(s)
    ELSE IF Ch(pat, i) = "*"
         THEN \E k \in j..(Len(s) + 1) : GlobFrom(pat, i + 1, s, k)
    ELSE IF Ch(pat, i) = "\\" /\ i < Len(pat)
         THEN j <= Len(s) /\ Ch(pat, i + 1) = Ch(s, j) /\ GlobFrom(pat, i + 2, s, j + 1)
         ELSE j <= Len(s) /\ Ch(pat, i) = Ch(s, j) /\ GlobFrom(pat, i + 1, s, j + 1)

\* the -x patterns of the production archive, build-complete.sh line 222
ZipExcludes == {"*.DS_Store", "*/\\.*", "*.git*", "*.svn*"}

\* the -x patterns of the development archive, build-complete.sh line 236
DevZipExcludes == ZipExcludes \cup {"node_modules/*", "build/*", "*.zip"}

\* the "!" patterns of compress.development, Gruntfile-enhanced.js lines 69-76
DevelopmentExcludes ==
    {"node_modules/**", "build/**", "*.zip", ".git/**", ".svn/**", "*.log", ".DS_Store",
     "**/Thumbs.db"}

\* the names of the standard layouts and of what a build makes of them, and
\* the matches of the patterns among them, worked out once
KnownNames ==
    LET tree == DOMAIN TreeOf(StandardLayout) \cup DOMAIN SrcTree("partial")
                  \cup DOMAIN RootHeader("1.0.0") \cup DOMAIN StaleZips("yes")
        rel == {DropPrefix(p, "src/") : p \in {q \in tree : HasPrefix(q, "src/")}}
                  \cup {"readme.txt", "README.md", "license.txt", "buddypress.pot"}
    IN  tree \cup rel \cup {"build/" \o r : r \in rel} \cup {"buddypress/" \o r : r \in rel}

GlobTable == [g \in DevZipExcludes |-> {n \in KnownNames : GlobFrom(g, 1, n, 1)}]

GlobMatch(pat, s) ==
    IF pat \in DOMAIN GlobTable /\ s \in KnownNames
    THEN s \in GlobTable[pat]
    ELSE GlobFrom(pat, 1, s, 1)

SegMatch(pat, seg) ==
    /\ ~Contains(seg, "/")
    /\ (HasPrefix(seg, ".") => HasPrefix(pat, "."))
    /\ GlobMatch(pat, seg)

\* minimatch with the default options (dot: false, no matchBase), on segments
RECURSIVE MiniSegs(_, _)
MiniSegs(ps, ss) ==
    IF ps = <<>> THEN ss = <<>>
    ELSE IF Head(ps) = "**"
         THEN \/ MiniSegs(Tail(ps), ss)
              \/ /\ ss # <<>>
                 /\ ~HasPrefix(Head(ss), ".")
                 /\ MiniSegs(ps, Tail(ss))
         ELSE /\ ss # <<>>
              /\ SegMatch(Head(ps), Head(ss))
              /\ MiniSegs(Tail(ps), Tail(ss))

MiniTable ==
    [g \in DevelopmentExcludes \cup {"**/*"} |->
        {n \in KnownNames : MiniSegs(Segments(g), Segments(n))}]

MiniMatch(pat, path) ==
    IF pat \in DOMAIN MiniTable /\ path \in KnownNames
    THEN path \in MiniTable[pat]
    ELSE MiniSegs(Segments(pat), Segments(path))

Commands == {"build-complete.sh", "build-zip", "build-release", "build-clean"}

FailCodes == {1}

(***************************************************************************)
(* State                                                                   *)
(***************************************************************************)
VARIABLES
    cmd,              \* the command the user ran
    fs,               \* the project tree, archives apart
    zips,             \* the archives at the project root: name -> entries, maker
    pkgVersion,       \* package.json's version field
    pc,               \* where the run stands
    exit,             \* the exit status, -1 while running
    VERSION,          \* $VERSION
    extractorRuns,    \* the effective user of each make-pot run of the script
    gq,               \* Grunt's task queue
    grunt,            \* "idle", "running", "ok" or "failed"
    composer,         \* command -v composer: "unprobed", "yes", "no"
    wpcli,            \* WP-CLI: "unprobed", "none", "local", "path"
    priv,             \* [root, sudoUser] once probed
    msgs,             \* what the transcript holds
    VALIDATION_STATUS,
    ran,              \* the tasks Grunt ran to their end, in order
    tools,            \* what each tool did when it first ran: tool -> outcome
    failed,           \* the steps that failed, as [step, required]
    run               \* [n, build]: which run this is, and build/ as the run before left it

vars == <<cmd, fs, zips, pkgVersion, pc, exit, VERSION, extractorRuns, gq, grunt,
          composer, wpcli, priv, msgs, VALIDATION_STATUS, failed, ran, tools, run>>

NoPriv == [probed |-> FALSE, root |-> FALSE, sudoUser |-> ""]

AllPaths == DOMAIN fs \cup DOMAIN zips

Init ==
    /\ cmd \in Commands
    /\ \E l \in Layouts :
          /\ Cardinality(Departures(l)) <= MaxDepartures
          \* Grunt runs from node_modules
          /\ cmd # "build-complete.sh" => l.nodeModules = "yes"
          /\ fs = TreeOf(l)
          /\ zips = StaleZips(l.stale)
          /\ pkgVersion = PkgVersion(l.pkg)
    /\ pc = IF cmd = "build-complete.sh" THEN "start" ELSE "grunt"
    /\ exit = -1
    /\ VERSION = ""
    /\ extractorRuns = <<>>
    /\ gq = IF cmd = "build-complete.sh" THEN <<>> ELSE <<cmd>>
    /\ grunt = IF cmd = "build-complete.sh" THEN "idle" ELSE "running"
    /\ composer = "unprobed"
    /\ wpcli = "unprobed"
    /\ priv = NoPriv
    /\ msgs = {}
    /\ VALIDATION_STATUS = ""
    /\ failed = {}
    /\ ran = <<>>
    /\ tools = [t \in {} |-> ""]
    /\ run = [n |-> 1, build |-> Empty]

(***************************************************************************)
(* build-complete.sh                                                       *)
(***************************************************************************)
\* set -e: a failing simple command ends the run with its status
Abort(step, required, rc) ==
    /\ pc' = "aborted"
    /\ exit' = rc
    /\ failed' = failed \cup {[step |-> step, required |-> required]}

\* lines 18-25
ResolveVersion ==
    /\ pc = "start"
    /\ \E v \in {ShellVersion(fs)} : VERSION' = v
    /\ pc' = "step1"
    /\ UNCHANGED <<run, tools, ran, extractorRuns, cmd, fs, zips, pkgVersion, exit, gq, grunt, composer, wpcli, priv,
                   msgs, VALIDATION_STATUS, failed>>

\* what npm install may leave in node_modules
NpmInstalls ==
    { Files({"node_modules/grunt/index.js"}, "js"),
      Files({"node_modules/grunt/index.js", "node_modules/grunt-contrib-compress/index.js"}, "js") }

\* Step 1, lines 27-34
Step1Dependencies ==
    /\ pc = "step1"
    /\ IF ~DirExists(fs, "node_modules")
       THEN \/ \E nm \in NpmInstalls :
                 /\ fs' = WriteAll(fs, nm)
                 /\ pc' = "step2"
                 /\ UNCHANGED <<exit, failed>>
            \/ \E rc \in FailCodes :
                 /\ Abort("npm install", TRUE, rc)
                 /\ UNCHANGED fs
       ELSE /\ pc' = "step2"
            /\ UNCHANGED <<fs, exit, failed>>
    /\ UNCHANGED <<run, tools, ran, extractorRuns, cmd, zips, pkgVersion, VERSION, gq, grunt, composer, wpcli, priv,
                   msgs, VALIDATION_STATUS>>

\* a clean step that leaves the archives alone
NoOldZips(names) == {}

\* the root entries the shell glob buddypress-*.zip selects
OldZips(names) == {n \in names : SegMatch("buddypress-*.zip", n)}

\* Step 2, lines 36-40
Step2Clean ==
    /\ pc = "step2"
    /\ fs' = RemoveTree(fs, "build")
    /\ zips' = Restrict(zips, DOMAIN zips \ OldZips(DOMAIN zips))
    /\ pc' = "step3"
    /\ UNCHANGED <<run, tools, ran, extractorRuns, cmd, pkgVersion, exit, VERSION, gq, grunt, composer, wpcli, priv,
                   msgs, VALIDATION_STATUS, failed>>

\* Step 3, lines 45-49
Step3Compress ==
    /\ pc = "step3"
    /\ IF ~DirExists(fs, "node_modules/grunt-contrib-compress")
       THEN \/ /\ fs' = WriteAll(fs, Files({"node_modules/grunt-contrib-compress/index.js"}, "js"))
               /\ pc' = "gate"
               /\ UNCHANGED <<exit, failed>>
            \/ \E rc \in FailCodes :
                 /\ Abort("npm install grunt-contrib-compress", TRUE, rc)
                 /\ UNCHANGED fs
       ELSE /\ pc' = "gate"
            /\ UNCHANGED <<fs, exit, failed>>
    /\ UNCHANGED <<run, tools, ran, extractorRuns, cmd, zips, pkgVersion, VERSION, gq, grunt, composer, wpcli, priv,
                   msgs, VALIDATION_STATUS>>

\* GRUNT_CMD, line 52
GruntCmd == <<"build-zip">>

\* $GRUNT_CMD, lines 56 and 61
StartGrunt ==
    /\ gq' = GruntCmd
    /\ grunt' = "running"
    /\ pc' = "grunt"

\* a gate that reports the missing Composer and goes on to the build
ComposerMissingGoesOn ==
    /\ msgs' = msgs \cup {"ERROR: Composer not found! Please install Composer"}
    /\ StartGrunt
    /\ UNCHANGED <<fs, exit, failed>>

\* lines 62-68: no vendor/bin/phpcs and no composer
ComposerMissing ==
    /\ msgs' = msgs \cup {"ERROR: Composer not found! Please install Composer"}
    /\ Abort("dependency gate", TRUE, 1)
    /\ UNCHANGED <<fs, gq, grunt>>

\* Step 3, lines 54-68: the dependency gate
Step3Gate ==
    /\ pc = "gate"
    /\ IF DirExists(fs, "vendor") /\ FileExists(fs, "vendor/bin/phpcs")
       THEN /\ StartGrunt
            /\ UNCHANGED <<fs, composer, msgs, exit, failed>>
       ELSE \E found \in {"yes", "no"} :
            /\ composer' = found
            /\ IF found = "yes"
               THEN \/ \E phpcs \in {"yes", "no"} :
                         \* composer install
                         /\ fs' = WriteAll(fs, VendorTree(phpcs)
                                                  @@ Files({"vendor/autoload.php"}, "php"))
                         /\ StartGrunt
                         /\ UNCHANGED <<msgs, exit, failed>>
                    \/ \E rc \in FailCodes :
                         /\ Abort("composer install", TRUE, rc)
                         /\ UNCHANGED <<fs, gq, grunt, msgs>>
               ELSE ComposerMissing
    /\ UNCHANGED <<run, tools, ran, extractorRuns, cmd, zips, pkgVersion, VERSION, wpcli, priv,
                   VALIDATION_STATUS>>

(***************************************************************************)
(* Gruntfile-enhanced.js                                                   *)
(***************************************************************************)
\* task lists that archive before the root files are copied
TaskListArchiveFirst(task) ==
    CASE task = "build-zip" ->
            <<"commit", "clean:all", "copy:files", "uglify:core", "jsvalidate:build",
              "exec:blocks_build", "cssmin", "bp_rest", "makepot-simple", "exec:bpdefault",
              "exec:cli", "clean:cli", "compress:production", "copy:rootfiles">>
      [] task = "build-release" ->
            <<"build", "compress:production", "copy:rootfiles", "compress:development">>
      [] task = "build-clean" ->
            <<"clean:zip", "build", "compress:production", "copy:rootfiles">>

\* lines 139-163: the task lists registered under the three release tasks
TaskList(task) ==
    CASE task = "build-zip" ->
            <<"commit", "clean:all", "copy:files", "uglify:core", "jsvalidate:build",
              "exec:blocks_build", "cssmin", "bp_rest", "makepot-simple", "exec:bpdefault",
              "exec:cli", "clean:cli", "copy:rootfiles", "compress:production">>
      [] task = "build-release" ->
            <<"build", "copy:rootfiles", "compress:production", "compress:development">>
      [] task = "build-clean" ->
            <<"clean:zip", "build", "copy:rootfiles", "compress:production">>

ReleaseTasks == {"build-zip", "build-release", "build-clean"}

\* the tasks of the original Gruntfile.js, run as given
OriginalTasks ==
    {"commit", "clean:all", "copy:files", "uglify:core", "jsvalidate:build",
     "exec:blocks_build", "cssmin", "bp_rest", "exec:bpdefault", "exec:cli", "clean:cli",
     "build"}

\* src/ as the original build copies it into build/
SrcCopied(files) ==
    LET sel == Under(files, "src") \ {"src/"}
    IN  WriteAll(files, Moved(files, sel, "src/", "build/"))

\* the ways a successful task of the original Gruntfile.js may end
OriginalKinds(task) ==
    CASE task = "clean:all"  -> {"cleaned"}
      [] task = "copy:files" -> {"copied", "nothing", "mkdir"}
      [] task = "build"      -> {"copied", "cleaned"}
      [] OTHER               -> {"nothing"}

\* what the task leaves behind when it ends that way
OriginalOutcome(task, kind, files) ==
    CASE kind = "cleaned" -> RemoveTree(files, "build")
      [] kind = "copied"  -> IF task = "build" THEN SrcCopied(RemoveTree(files, "build"))
                             ELSE SrcCopied(files)
      [] kind = "mkdir"   -> MkDir(files, "build")
      [] OTHER            -> files

\* what a successful task of the original Gruntfile.js may leave behind
OriginalOutcomes(task, files) ==
    {OriginalOutcome(task, k, files) : k \in OriginalKinds(task)}

\* a tool does again what it did the first time
Chosen(t, options) == IF t \in DOMAIN tools THEN {tools[t]} ELSE options

Noted(t, o) == (t :> o) @@ tools

\* a task fails: Grunt stops and exits non-zero; under set -e so does the script
GruntFail(task, rc) ==
    /\ grunt' = "failed"
    /\ Abort(task, TRUE, rc)
    /\ UNCHANGED ran

\* the task at the head of the queue is over and the next one is up
GruntNext == gq' = Tail(gq) /\ ran' = Append(ran, Head(gq))

GruntRunning == pc = "grunt" /\ grunt = "running" /\ gq # <<>>

GruntAlias ==
    /\ GruntRunning
    /\ Head(gq) \in ReleaseTasks
    /\ gq' = TaskList(Head(gq)) \o Tail(gq)
    /\ UNCHANGED <<run, tools, ran, extractorRuns, cmd, fs, zips, pkgVersion, pc, exit, VERSION, grunt, composer, wpcli,
                   priv, msgs, VALIDATION_STATUS, failed>>

GruntOriginalTask ==
    /\ GruntRunning
    /\ Head(gq) \in OriginalTasks
    /\ \/ \E k \in Chosen(Head(gq), OriginalKinds(Head(gq))) :
            /\ fs' = OriginalOutcome(Head(gq), k, fs)
            /\ tools' = IF Cardinality(OriginalKinds(Head(gq))) > 1
                        THEN Noted(Head(gq), k) ELSE tools
            /\ GruntNext
            /\ UNCHANGED <<pc, exit, grunt, failed>>
       \/ \E rc \in FailCodes :
            /\ GruntFail(Head(gq), rc)
            /\ UNCHANGED <<fs, gq, tools>>
    /\ UNCHANGED <<run, extractorRuns, cmd, zips, pkgVersion, VERSION, composer, wpcli, priv, msgs,
                   VALIDATION_STATUS>>

\* lines 117-136: the spawn's error is logged, done() is called either way
MakepotSimple ==
    /\ GruntRunning
    /\ Head(gq) = "makepot-simple"
    /\ \/ /\ "written" \in Chosen("makepot-simple", {"written", "skipped"})
          /\ wpcli \in {"unprobed", "path"}
          /\ DirExists(fs, "build")
          /\ wpcli' = "path"
          /\ fs' = WriteAll(fs, Files({"build/buddypress.pot"}, "pot"))
          /\ msgs' = msgs \cup {"POT file generated successfully"}
          /\ tools' = Noted("makepot-simple", "written")
          /\ UNCHANGED failed
       \/ /\ "skipped" \in Chosen("makepot-simple", {"written", "skipped"})
          /\ msgs' = msgs \cup {"POT file generation skipped (optional)"}
          /\ failed' = failed \cup {[step |-> "makepot-simple", required |-> FALSE]}
          /\ tools' = Noted("makepot-simple", "skipped")
          /\ UNCHANGED <<fs, wpcli>>
    /\ GruntNext
    /\ UNCHANGED <<run, extractorRuns, cmd, zips, pkgVersion, pc, exit, VERSION, grunt, composer, priv,
                   VALIDATION_STATUS>>

\* lines 95-105
RootFiles == {"readme.txt", "README.md", "license.txt", "LICENSE"}

CopyRootfiles ==
    /\ GruntRunning
    /\ Head(gq) = "copy:rootfiles"
    /\ LET sel == {p \in RootFiles : FileExists(fs, p)}
       IN  fs' = WriteAll(fs, Moved(fs, sel, "", "build/"))
    /\ GruntNext
    /\ UNCHANGED <<run, tools, extractorRuns, cmd, zips, pkgVersion, pc, exit, VERSION, grunt, composer, wpcli, priv,
                   msgs, VALIDATION_STATUS, failed>>

\* grunt.file.expand: the matches of the patterns, "!" patterns taking theirs away
Expand(paths, includes, excludes) ==
    {p \in paths : /\ p # "" /\ ~HasSuffix(p, "/")
                   /\ \E g \in includes : MiniMatch(g, p)
                   /\ \A g \in excludes : ~MiniMatch(g, p)}

\* lines 48-53
ProductionEntries(files) ==
    LET rel == {DropPrefix(p, "build/") : p \in Under(files, "build")}
    IN  {"buddypress/" \o r : r \in Expand(rel, {"**/*"}, {})}

DevelopmentEntries(paths) ==
    {"buddypress-dev/" \o r : r \in Expand(paths, {"**/*"}, DevelopmentExcludes)}

\* lines 27-54
CompressProduction ==
    /\ GruntRunning
    /\ Head(gq) = "compress:production"
    /\ \/ /\ zips' = (ProductionArchive(fs, pkgVersion) :>
                        [entries |-> ProductionEntries(fs), by |-> "grunt"]) @@ zips
          /\ GruntNext
          /\ UNCHANGED <<pc, exit, grunt, failed>>
       \/ \E rc \in FailCodes :
            /\ GruntFail("compress:production", rc)
            /\ UNCHANGED <<zips, gq>>
    /\ UNCHANGED <<run, tools, extractorRuns, cmd, fs, pkgVersion, VERSION, composer, wpcli, priv, msgs,
                   VALIDATION_STATUS>>

\* lines 55-80
CompressDevelopment ==
    /\ GruntRunning
    /\ Head(gq) = "compress:development"
    /\ \/ /\ zips' = (DevelopmentArchive(pkgVersion) :>
                        [entries |-> DevelopmentEntries(AllPaths), by |-> "grunt"]) @@ zips
          /\ GruntNext
          /\ UNCHANGED <<pc, exit, grunt, failed>>
       \/ \E rc \in FailCodes :
            /\ GruntFail("compress:development", rc)
            /\ UNCHANGED <<zips, gq>>
    /\ UNCHANGED <<run, tools, extractorRuns, cmd, fs, pkgVersion, VERSION, composer, wpcli, priv, msgs,
                   VALIDATION_STATUS>>

\* lines 83-89
CleanZip ==
    /\ GruntRunning
    /\ Head(gq) = "clean:zip"
    /\ fs' = Restrict(fs, DOMAIN fs \ Expand(DOMAIN fs, {"*.zip"}, {}))
    /\ zips' = Restrict(zips, DOMAIN zips \ Expand(DOMAIN zips, {"*.zip"}, {}))
    /\ GruntNext
    /\ UNCHANGED <<run, tools, extractorRuns, cmd, pkgVersion, pc, exit, VERSION, grunt, composer, wpcli, priv,
                   msgs, VALIDATION_STATUS, failed>>

\* the queue is empty: Grunt exits 0; build-complete.sh goes on to Step 4
GruntDone ==
    /\ pc = "grunt"
    /\ grunt = "running"
    /\ gq = <<>>
    /\ grunt' = "ok"
    /\ IF cmd = "build-complete.sh"
       THEN pc' = "step4" /\ UNCHANGED exit
       ELSE pc' = "done" /\ exit' = 0
    /\ UNCHANGED <<run, tools, ran, extractorRuns, cmd, fs, zips, pkgVersion, VERSION, gq, composer, wpcli, priv, msgs,
                   VALIDATION_STATUS, failed>>

(***************************************************************************)
(* build-complete.sh, Steps 4-9                                            *)
(***************************************************************************)
\* a check that takes an empty build/ for a build
BuildAbsent(files) == ~DirExists(files, "build")

\* lines 72 and 83: [ ! -d "build" ] || [ -z "$(ls -A build)" ]
BuildMissing(files) == ~DirExists(files, "build") \/ ~DirNonEmpty(files, "build")

\* Step 4, line 72
Step4Verify ==
    /\ pc = "step4"
    /\ IF BuildMissing(fs)
       THEN /\ msgs' = msgs \cup {"Build directory empty. Attempting fallback build..."}
            /\ pc' = "fallback"
       ELSE /\ pc' = "step5"
            /\ UNCHANGED msgs
    /\ UNCHANGED <<run, tools, ran, extractorRuns, cmd, fs, zips, pkgVersion, exit, VERSION, gq, grunt,
                   composer, wpcli, priv, VALIDATION_STATUS, failed>>

\* Step 4, lines 75-80: the individual tasks of the original Gruntfile.js
Step4Fallback ==
    /\ pc = "fallback"
    /\ \/ \E k \in Chosen("fallback", OriginalKinds("copy:files")) :
            /\ fs' = OriginalOutcome("copy:files", k, RemoveTree(fs, "build"))
            /\ tools' = Noted("fallback", k)
            /\ pc' = "copysrc"
            /\ UNCHANGED <<exit, failed>>
       \/ \E rc \in FailCodes :
            /\ Abort("fallback build", TRUE, rc)
            /\ UNCHANGED <<fs, tools>>
    /\ UNCHANGED <<run, ran, extractorRuns, cmd, zips, pkgVersion, VERSION, gq, grunt, composer,
                   wpcli, priv, msgs, VALIDATION_STATUS>>

\* Step 4, lines 82-87
Step4CopySource ==
    /\ pc = "copysrc"
    /\ IF BuildMissing(fs)
       THEN LET sel == StarUnder(fs, "src")
            IN  IF sel = {}
                THEN /\ fs' = MkDir(fs, "build")
                     /\ Abort("cp -r src/* build/", TRUE, 1)
                     /\ UNCHANGED msgs
                ELSE /\ fs' = WriteAll(MkDir(fs, "build"), Moved(fs, sel, "src/", "build/"))
                     /\ msgs' = msgs \cup {"Creating build from source directory..."}
                     /\ pc' = "step5"
                     /\ UNCHANGED <<exit, failed>>
       ELSE /\ pc' = "step5"
            /\ UNCHANGED <<fs, msgs, exit, failed>>
    /\ UNCHANGED <<run, tools, ran, extractorRuns, cmd, zips, pkgVersion, VERSION, gq, grunt, composer,
                   wpcli, priv, VALIDATION_STATUS>>

\* cp path build/, when path is a file and build/ has none of that name
CopyIfAbsent(files, path, name) ==
    IF FileExists(files, path) /\ ~FileExists(files, "build/" \o name)
    THEN WriteAll(files, Files({"build/" \o name}, files[path]))
    ELSE files

\* lines 99-104
CopyReadme(files) ==
    IF FileExists(files, "readme.txt") /\ ~FileExists(files, "build/readme.txt")
    THEN WriteAll(files, Files({"build/readme.txt"}, files["readme.txt"]))
    ELSE CopyIfAbsent(files, "README.md", "README.md")

\* Step 5, lines 90-109
Reconciled(files) ==
    CopyIfAbsent(CopyReadme(CopyIfAbsent(files, "src/bp-loader.php", "bp-loader.php")),
                 "license.txt", "license.txt")

Step5RootFiles ==
    /\ pc = "step5"
    /\ fs' = Reconciled(fs)
    /\ pc' = "step5b"
    /\ UNCHANGED <<run, tools, ran, extractorRuns, cmd, zips, pkgVersion, exit, VERSION, gq, grunt,
                   composer, wpcli, priv, msgs, VALIDATION_STATUS, failed>>

\* lines 127-134, 137
Elevated(p) == p.root \/ p.sudoUser # ""

CurrentUser(p) == IF p.root THEN "root" ELSE "dev"

ActualUser(p) == IF p.sudoUser # "" THEN p.sudoUser ELSE CurrentUser(p)

\* the user WP-CLI runs as: sudo -u $ACTUAL_USER when elevated (lines 147-160)
ExtractorUser(p) == IF Elevated(p) THEN ActualUser(p) ELSE CurrentUser(p)

\* what the probes of lines 115-120 may find, given what Grunt's spawn showed
WpChoices ==
    CASE wpcli = "unprobed" -> {"none", "local", "path"}
      [] wpcli = "path"     -> {"local", "path"}
      [] OTHER              -> {wpcli}

WithPot(files) == WriteAll(files, Files({"build/buddypress.pot"}, "pot"))

PotReport(files) ==
    IF FileExists(files, "build/buddypress.pot")
    THEN {"POT file generated successfully"}
    ELSE {}

\* a translation step that tries the direct attempt once more
AttemptsRetried(temp, who) == IF temp THEN <<who>> ELSE <<who, who, who>>

\* lines 142-198: the run into $TEMP_POT, then, without a $TEMP_POT, one direct
\* run into build/
Attempts(temp, who) == IF temp THEN <<who>> ELSE <<who, who>>

\* Step 5b, lines 111-202
Step5bPot ==
    /\ pc = "step5b"
    /\ \E wp \in WpChoices :
       /\ wpcli' = wp
       /\ IF wp = "none"
          THEN /\ msgs' = msgs \cup {"WP-CLI not found - skipping POT file generation"}
               /\ failed' = failed \cup {[step |-> "WP-CLI", required |-> FALSE]}
               /\ pc' = "step6"
               /\ UNCHANGED <<fs, priv, extractorRuns, exit, tools>>
          ELSE \E root \in BOOLEAN, su \in {"", "dev"}, temp \in BOOLEAN :
               LET p == [probed |-> TRUE, root |-> root, sudoUser |-> su]
                   who == ExtractorUser(p)
               IN
               /\ priv.probed => p = priv
               /\ "make-pot" \in DOMAIN tools => (temp <=> tools["make-pot"] = "temp")
               /\ priv' = p
               \* WP-CLI refuses to run as root
               /\ temp => who # "root"
               /\ IF temp
                  THEN \* lines 163-177: the template is in $TEMP_POT
                       /\ extractorRuns' = extractorRuns \o Attempts(temp, who)
                       /\ tools' = Noted("make-pot", "temp")
                       /\ \/ /\ fs' = WithPot(fs)
                             /\ msgs' = msgs \cup PotReport(fs')
                             /\ pc' = "step6"
                             /\ UNCHANGED <<exit, failed>>
                          \/ \E rc \in FailCodes :
                             \* mv fails
                             /\ Abort("mv $TEMP_POT build/buddypress.pot", FALSE, rc)
                             /\ UNCHANGED <<fs, msgs>>
                          \/ \E rc \in FailCodes :
                             \* sudo chmod fails (line 168)
                             /\ Elevated(p)
                             /\ fs' = WithPot(fs)
                             /\ Abort("sudo chmod 644 build/buddypress.pot", FALSE, rc)
                             /\ UNCHANGED msgs
                  ELSE \* lines 179-197: the direct attempt
                       /\ extractorRuns' = extractorRuns \o Attempts(temp, who)
                       /\ \E direct \in BOOLEAN :
                          /\ direct => who # "root"
                          /\ (IF direct THEN "direct" ELSE "none")
                                \in Chosen("make-pot", {"direct", "none"})
                          /\ tools' = Noted("make-pot", IF direct THEN "direct" ELSE "none")
                          /\ fs' = IF direct THEN WithPot(fs) ELSE fs
                          /\ IF FileExists(fs', "build/buddypress.pot")
                             THEN /\ msgs' = msgs \cup PotReport(fs')
                                  /\ UNCHANGED failed
                             ELSE /\ msgs' = msgs \cup
                                       {"POT file generation failed - will need manual generation"}
                                  /\ failed' = failed \cup
                                       {[step |-> "make-pot", required |-> FALSE]}
                          /\ pc' = "step6"
                          /\ UNCHANGED exit
    /\ UNCHANGED <<run, ran, cmd, zips, pkgVersion, VERSION, gq, grunt, composer, VALIDATION_STATUS>>

\* zip -r: the names given, less those a -x pattern matches
Zipped(names, excludes) == {n \in names : \A g \in excludes : ~GlobMatch(g, n)}

\* lines 212-223: build/* under buddypress/
ManualEntries(files) ==
    Zipped({"buddypress/" \o DropPrefix(p, "build/") : p \in StarUnder(files, "build")},
           ZipExcludes)

\* Step 6, lines 204-229
Step6Zip ==
    /\ pc = "step6"
    /\ LET name == ZipName(VERSION)
       IN  IF name \notin AllPaths
           THEN IF StarUnder(fs, "build") = {}
                THEN /\ Abort("cp -r build/* buddypress-build-temp/buddypress/", TRUE, 1)
                     /\ UNCHANGED <<zips, msgs>>
                ELSE \/ /\ zips' = (name :> [entries |-> ManualEntries(fs), by |-> "script"])
                                       @@ zips
                        /\ msgs' = msgs \cup {"Creating ZIP file manually..."}
                        /\ pc' = "step7"
                        /\ UNCHANGED <<exit, failed>>
                     \/ \E rc \in FailCodes :
                          /\ Abort("zip production", TRUE, rc)
                          /\ UNCHANGED <<zips, msgs>>
           ELSE /\ msgs' = msgs \cup {"ZIP file already created by Grunt"}
                /\ pc' = "step7"
                /\ UNCHANGED <<zips, exit, failed>>
    /\ UNCHANGED <<run, tools, ran, extractorRuns, cmd, fs, pkgVersion, VERSION, gq, grunt, composer,
                   wpcli, priv, VALIDATION_STATUS>>

\* line 236: zip -r $DEV_ZIP_NAME . adds to an archive that is there
DevEntries(paths, name) ==
    Zipped(paths, DevZipExcludes)
        \cup (IF name \in DOMAIN zips THEN zips[name].entries ELSE {})

\* a Step 7 that goes on when zip fails
Step7DevZipUnchecked ==
    /\ pc = "step7"
    /\ \/ zips' = (DevZipName(VERSION) :>
                     [entries |-> DevEntries(AllPaths, DevZipName(VERSION)),
                      by |-> "script"]) @@ zips
       \/ UNCHANGED zips
    /\ pc' = "step8"
    /\ UNCHANGED <<run, tools, ran, extractorRuns, cmd, fs, pkgVersion, VERSION, gq, grunt, composer,
                   wpcli, priv, msgs, VALIDATION_STATUS, exit, failed>>

\* Step 7, lines 231-237
Step7DevZip ==
    /\ pc = "step7"
    /\ \/ /\ zips' = (DevZipName(VERSION) :>
                        [entries |-> DevEntries(AllPaths, DevZipName(VERSION)),
                         by |-> "script"]) @@ zips
          /\ pc' = "step8"
          /\ UNCHANGED <<exit, failed>>
       \/ \E rc \in FailCodes :
            /\ Abort("zip development", TRUE, rc)
            /\ UNCHANGED zips
    /\ UNCHANGED <<run, tools, ran, extractorRuns, cmd, fs, pkgVersion, VERSION, gq, grunt, composer,
                   wpcli, priv, msgs, VALIDATION_STATUS>>

\* validate-build.sh is not part of the sources at hand; its verdict follows the
\* validation reporter of the specification: fail when a required top-level
\* entry is missing from build/, warning when only the translation template
\* is, pass otherwise.
InBuild(files, e) ==
    IF e \in Components THEN DirExists(files, "build/" \o e)
    ELSE FileExists(files, "build/" \o e)

ValidationReport(files) ==
    IF \E e \in RequiredEntries : ~InBuild(files, e) THEN "FAIL"
    ELSE IF ~FileExists(files, "build/buddypress.pot") THEN "WARNING"
    ELSE "PASS"

\* exit statuses of ./validate-build.sh: 0 on pass, non-zero on fail; the
\* status of a run that only warns is not fixed by the specification
ValidatorExits(files) ==
    CASE ValidationReport(files) = "PASS" -> {0}
      [] ValidationReport(files) = "FAIL" -> FailCodes
      [] OTHER -> {0} \cup FailCodes

\* a Step 8 that sets the status only when the validation script ran
StatusWhenRun(present, rc) ==
    IF ~present THEN ""
    ELSE IF rc = 0 THEN "PASSED" ELSE "PASSED WITH WARNINGS"

\* lines 244-259: $VALIDATION_STATUS, less the colour codes
StatusOf(present, rc) ==
    IF ~present THEN "NOT VALIDATED"
    ELSE IF rc = 0 THEN "PASSED" ELSE "PASSED WITH WARNINGS"

\* Step 8, lines 239-259
Step8Validate ==
    /\ pc = "step8"
    /\ IF FileExists(fs, "validate-build.sh")
       THEN \/ \E rc \in ValidatorExits(fs) :
               IF rc = 0
               THEN /\ VALIDATION_STATUS' = StatusOf(TRUE, rc)
                    /\ msgs' = msgs \cup {"BUILD VALIDATION PASSED"}
                    /\ pc' = "step9"
                    /\ UNCHANGED <<exit, failed>>
               ELSE /\ VALIDATION_STATUS' = StatusOf(TRUE, rc)
                    /\ msgs' = msgs \cup {"BUILD VALIDATION HAD WARNINGS"}
                    /\ failed' = failed \cup {[step |-> "validate-build.sh", required |-> FALSE]}
                    /\ pc' = "step9"
                    /\ UNCHANGED exit
            \/ \E rc \in FailCodes :
               \* chmod +x fails (line 246)
               /\ Abort("chmod +x validate-build.sh", FALSE, rc)
               /\ UNCHANGED <<VALIDATION_STATUS, msgs>>
       ELSE /\ VALIDATION_STATUS' = StatusOf(FALSE, 0)
            /\ msgs' = msgs \cup {"Validation script not found - skipping validation"}
            /\ pc' = "step9"
            /\ UNCHANGED <<exit, failed>>
    /\ UNCHANGED <<run, tools, ran, extractorRuns, cmd, fs, zips, pkgVersion, VERSION, gq, grunt, composer,
                   wpcli, priv>>

\* Step 9, lines 261-293
Step9Report ==
    /\ pc = "step9"
    /\ msgs' = msgs \cup {"Build Complete!"}
    /\ pc' = "done"
    /\ exit' = 0
    /\ UNCHANGED <<run, tools, ran, extractorRuns, cmd, fs, zips, pkgVersion, VERSION, gq, grunt, composer,
                   wpcli, priv, VALIDATION_STATUS, failed>>

(***************************************************************************)
(* The script run a second time in the tree the first run left, every tool *)
(* doing what it did the first time.                                       *)
(***************************************************************************)
Rerun ==
    /\ cmd = "build-complete.sh" /\ pc = "done" /\ run.n = 1
    /\ run' = [n |-> 2, build |-> Restrict(fs, Under(fs, "build"))]
    /\ zips' = [n \in DOMAIN zips |-> [zips[n] EXCEPT !.by = "earlier run"]]
    \* wp was on the PATH if Grunt's spawn found it
    /\ wpcli' = IF "makepot-simple" \in DOMAIN tools /\ tools["makepot-simple"] = "written"
                THEN "path" ELSE wpcli
    /\ pc' = "start"
    /\ exit' = -1
    /\ VERSION' = ""
    /\ extractorRuns' = <<>>
    /\ gq' = <<>>
    /\ grunt' = "idle"
    /\ msgs' = {}
    /\ VALIDATION_STATUS' = ""
    /\ failed' = {}
    /\ ran' = <<>>
    /\ UNCHANGED <<cmd, fs, pkgVersion, composer, priv, tools>>

Next ==
    \/ ResolveVersion
    \/ Step1Dependencies
    \/ Step2Clean
    \/ Step3Compress
    \/ Step3Gate
    \/ GruntAlias
    \/ GruntOriginalTask
    \/ MakepotSimple
    \/ CopyRootfiles
    \/ CompressProduction
    \/ CompressDevelopment
    \/ CleanZip
    \/ GruntDone
    \/ Step4Verify
    \/ Step4Fallback
    \/ Step4CopySource
    \/ Step5RootFiles
    \/ Step5bPot
    \/ Step6Zip
    \/ Step7DevZip
    \/ Step8Validate
    \/ Step9Report

Spec == Init /\ [][Next]_vars

SpecRerun == Init /\ [][Next \/ Rerun]_vars

\* every tool the run calls exits, and the shell and Grunt then take their next
\* step
SpecFair == Init /\ [][Next]_vars /\ WF_vars(Next)

(***************************************************************************)
(* Properties                                                              *)
(***************************************************************************)
Script == cmd = "build-complete.sh"

Ended == pc \in {"done", "aborted"}

\* the archives this run wrote
Produced == {n \in DOMAIN zips : zips[n].by # "earlier run"}

IsDevName(n) == HasSuffix(n, "-dev.zip")

ProducedProduction == {n \in Produced : ~IsDevName(n)}

ProducedDevelopment == {n \in Produced : IsDevName(n)}

\* the version between "buddypress-" and ".zip" or "-dev.zip"
EmbeddedVersion(n) ==
    LET body == DropPrefix(n, "buddypress-")
    IN  IF IsDevName(n) THEN SubSeq(body, 1, Len(body) - Len("-dev.zip"))
        ELSE SubSeq(body, 1, Len(body) - Len(".zip"))

DeclaresVersion(files, path) ==
    path \in DOMAIN files /\ Contains(files[path], VersionKey)

\* C1: in a finished run that wrote a production and a development archive,
\* the version in every production archive's name is non-empty and is the
\* version in the development archive's name.
C1_SameNonEmptyVersion ==
    (pc = "done" /\ ProducedProduction # {} /\ ProducedDevelopment # {}) =>
        \A a \in ProducedProduction, d \in ProducedDevelopment :
            /\ EmbeddedVersion(a) # ""
            /\ EmbeddedVersion(a) = EmbeddedVersion(d)

\* C2: with an empty version in package.json and "Version: 2.3.0" in
\* src/bp-loader.php, the archive compress:production writes is
\* buddypress-2.3.0.zip.
C2_EmptyManifestFallsThrough ==
    (/\ pkgVersion = JsStr("")
     /\ "src/bp-loader.php" \in DOMAIN fs
     /\ fs["src/bp-loader.php"] = HeaderWith("2.3.0")) =>
        \A a \in ProducedProduction :
            zips[a].by = "grunt" => a = "buddypress-2.3.0.zip"

NoVersionSource ==
    /\ ~Truthy(pkgVersion)
    /\ ~DeclaresVersion(fs, "src/bp-loader.php")
    /\ ~DeclaresVersion(fs, "bp-loader.php")

\* C3: with no version in package.json and no Version: line in either header
\* file, the version is the fallback 11.5.1: $VERSION of the script once it is
\* resolved, and the version in the name of every archive Grunt writes.
C3_FallbackVersion ==
    NoVersionSource =>
        /\ (Script /\ pc # "start") => VERSION = FallbackVersion
        /\ \A a \in Produced : zips[a].by = "grunt" => EmbeddedVersion(a) = FallbackVersion

\* C4: when package.json declares a non-empty version, every archive the run
\* writes carries that version in its name, whatever the header declares.
C4_ManifestFirst ==
    Truthy(pkgVersion) =>
        \A a \in Produced : EmbeddedVersion(a) = pkgVersion.str

GateMessage == "ERROR: Composer not found! Please install Composer"

\* C5: when neither vendor/bin/phpcs nor composer is found, the run has ended
\* with a non-zero exit and the Composer message, Grunt was never started and
\* no archive was written or left.
C5_DependencyGate ==
    (Script /\ composer = "no") =>
        /\ pc = "aborted"
        /\ exit # 0
        /\ GateMessage \in msgs
        /\ grunt = "idle" /\ gq = <<>>
        /\ Produced = {}
        /\ \A n \in DOMAIN zips : ~SegMatch("buddypress-*.zip", n)

C5_Witness ==
    /\ Script /\ composer = "no" /\ pc = "aborted"
    /\ ~FileExists(fs, "vendor/bin/phpcs")

\* C6: a run of the script that has ended exits non-zero if and only if a
\* required step failed.
C6_ExitStatus ==
    (Script /\ Ended) => (exit # 0 <=> \E f \in failed : f.required)

\* C7: the translation step never ends the run: from Step 5b the run always
\* goes on to Step 6, whatever becomes of the extractor and of the template.
C7_PotNeverAborts == [][pc = "step5b" => pc' = "step6"]_vars

AfterVerification == {"step5", "step5b", "step6", "step7", "step8", "step9", "done"}

\* C8: in every run of the script that is at or past the reconciliation step,
\* the build directory exists and holds something.
C8_BuildNonEmpty ==
    (Script /\ pc \in AfterVerification) =>
        DirExists(fs, "build") /\ DirNonEmpty(fs, "build")

\* the source tree was copied because Grunt left build/ missing or empty
C8_Witness ==
    /\ Script /\ pc = "step5"
    /\ "Creating build from source directory..." \in msgs
    /\ DirNonEmpty(fs, "build")

\* a path no development archive should carry
Forbidden(path) ==
    LET segs == Segments(path)
    IN  \/ HasPrefix(path, "node_modules/")
        \/ HasPrefix(path, "build/")
        \/ HasSuffix(path, ".zip")
        \/ \E i \in 1..Len(segs) : segs[i] \in {".git", ".svn", ".DS_Store"}

\* an entry of a development archive, as a path of the project
SourcePath(entry) ==
    IF HasPrefix(entry, "buddypress-dev/") THEN DropPrefix(entry, "buddypress-dev/") ELSE entry

\* C9: no development archive the run writes holds a path under node_modules/
\* or build/, an archive, a path under .git or .svn, or a .DS_Store.
C9_DevArchiveClean ==
    \A d \in ProducedDevelopment : \A e \in zips[d].entries : ~Forbidden(SourcePath(e))

\* C10: the finished script reports FAILED if and only if a required
\* top-level entry is missing from build/.
C10_ValidationStatus ==
    (Script /\ pc = "done") =>
        (VALIDATION_STATUS = "FAILED" <=> \E e \in RequiredEntries : ~InBuild(fs, e))

SummaryStatuses == {"PASSED", "PASSED WITH WARNINGS", "FAILED"}

AtReport == Script /\ pc \in {"step9", "done"}

\* C11: a run that reaches the final report has an overall status that is one
\* of PASSED, PASSED WITH WARNINGS and FAILED, whatever the validation step did.
C11_SummaryStatus == AtReport => VALIDATION_STATUS \in SummaryStatuses

\* C11, amended: the status is one of PASSED, PASSED WITH WARNINGS, FAILED and
\* NOT VALIDATED, and it is NOT VALIDATED exactly when validate-build.sh is
\* absent.
C11_SummaryStatusOrNotValidated ==
    AtReport =>
        /\ VALIDATION_STATUS \in SummaryStatuses \cup {"NOT VALIDATED"}
        /\ VALIDATION_STATUS = "NOT VALIDATED" <=> ~FileExists(fs, "validate-build.sh")

C11_Witness ==
    /\ Script /\ pc = "done"
    /\ ~FileExists(fs, "validate-build.sh")
    /\ VALIDATION_STATUS = "NOT VALIDATED"

\* the files of build/ as an archiver of either path names them
BuildEntries(files) == ProductionEntries(files) \cap ManualEntries(files)

AfterPot == {"step6", "step7", "step8", "step9", "done"}

\* C13: in a run of the script a production archive is written only once
\* reconciliation and the translation step of that run are over, and at the
\* summary every production archive of the run holds every file of build/.
C13_ArchiveAfterReconciliation ==
    Script =>
        /\ (ProducedProduction # {} /\ pc # "aborted") => pc \in AfterPot
        /\ pc = "done" =>
              \A a \in ProducedProduction : BuildEntries(fs) \subseteq zips[a].entries

ManualRan == \E a \in ProducedProduction : zips[a].by = "script"

GruntProduced == \E a \in ProducedProduction : zips[a].by = "grunt"

\* C14: once Step 6 is over, the manual archiver has run if and only if
\* compress:production wrote no production archive in this run, and a finished
\* run has exactly one production archive, buddypress-<VERSION>.zip.
C14_OneProductionArchive ==
    (Script /\ pc \in {"step7", "step8", "step9", "done"}) =>
        /\ ManualRan <=> ~GruntProduced
        /\ pc = "done" => ProducedProduction = {ZipName(VERSION)}

\* every entry lies below the one top-level folder
NestedUnder(entries, folder) == \A e \in entries : HasPrefix(e, folder \o "/")

\* C15: every entry of a production archive the run wrote lies under
\* buddypress/, and every entry of a development archive it wrote lies under
\* one top-level folder, buddypress-dev/.
C15_TopLevelFolder ==
    /\ \A a \in ProducedProduction : NestedUnder(zips[a].entries, "buddypress")
    /\ \A d \in ProducedDevelopment : NestedUnder(zips[d].entries, "buddypress-dev")

\* C17: when Grunt exits non-zero the script does not abort: it goes on to the
\* fallback build.
C17_GruntFailureFallsBack == (Script /\ grunt = "failed") => pc # "aborted"

\* C18: when the script runs elevated (root, or SUDO_USER set), every run of
\* the translation extractor is under a user that is not root and is not the
\* user the script runs as.
C18_ExtractorNotRoot ==
    (Script /\ priv.probed /\ Elevated(priv)) =>
        \A i \in 1..Len(extractorRuns) :
            /\ extractorRuns[i] # "root"
            /\ extractorRuns[i] # CurrentUser(priv)

\* the release task this run of Grunt was started with
Alias == IF Script THEN GruntCmd[1] ELSE cmd

\* where task t stands among the tasks that ran, 0 if it did not run
Pos(t) == IF \E i \in 1..Len(ran) : ran[i] = t
          THEN CHOOSE i \in 1..Len(ran) : ran[i] = t
          ELSE 0

Ran(t) == Pos(t) > 0

\* the build steps of a release task: all but the copy of the root files, the
\* archives and clean:zip
BuildSteps(task) ==
    {TaskList(task)[i] : i \in 1..Len(TaskList(task))}
        \ {"copy:rootfiles", "compress:production", "compress:development", "clean:zip"}

\* C19: in each release task, copy:rootfiles runs after every build step and
\* compress:production right after copy:rootfiles; in build-zip makepot-simple
\* runs before compress:production and never stops Grunt, whether or not it
\* wrote the template; in build-release compress:development runs after
\* compress:production; in build-clean clean:zip runs before the build.
C19_GruntTaskOrder ==
    /\ Ran("copy:rootfiles") =>
          \A b \in BuildSteps(Alias) : Ran(b) /\ Pos(b) < Pos("copy:rootfiles")
    /\ Ran("compress:production") =>
          Pos("compress:production") = Pos("copy:rootfiles") + 1
    /\ (Alias = "build-zip" /\ Ran("compress:production")) =>
          Ran("makepot-simple") /\ Pos("makepot-simple") < Pos("compress:production")
    /\ grunt = "failed" => Head(gq) # "makepot-simple"
    /\ (Alias = "build-zip" /\ grunt = "ok") => Ran("compress:production")
    /\ (Alias = "build-release" /\ Ran("compress:development")) =>
          Ran("compress:production")
             /\ Pos("compress:production") < Pos("compress:development")
    /\ (Alias = "build-clean" /\ Ran("build")) =>
          Ran("clean:zip") /\ Pos("clean:zip") < Pos("build")

\* build-zip ran to its end although makepot-simple wrote no template
C19_Witness ==
    /\ Alias = "build-zip" /\ grunt = "ok"
    /\ [step |-> "makepot-simple", required |-> FALSE] \in failed
    /\ Ran("compress:production")

\* a step that reconciles the root files is about to be taken
Reconciling ==
    \/ Script /\ pc = "step5"
    \/ GruntRunning /\ Head(gq) = "copy:rootfiles"

\* C16: reconciliation, in Step 5 of the script and in copy:rootfiles, leaves
\* every file that is already in build/ as it is.
C16_NoOverwrite ==
    [][Reconciling =>
          \A p \in DOMAIN fs :
              (HasPrefix(p, "build/") /\ FileExists(fs, p)) =>
                  (FileExists(fs', p) /\ fs'[p] = fs[p])]_vars

BuildOf(files) == Restrict(files, Under(files, "build"))

\* C12: when the second run on the same tree, with the same tool outcomes, has
\* ended, build/ holds the files it held after the first run, and after any
\* run build/ holds nothing an earlier run left there.
C12_RerunSameBuild ==
    (Script /\ pc = "done") =>
        /\ \A p \in Under(fs, "build") : fs[p] # "stale"
        /\ run.n = 2 => BuildOf(fs) = run.build

\* the second run has ended, on a build/ that reconciliation added to
C12_Witness ==
    /\ Script /\ pc = "done" /\ run.n = 2
    /\ FileExists(fs, "build/bp-loader.php")
    /\ FileExists(fs, "build/buddypress.pot")

\* the script is past its clean step and has not aborted
Cleaned == Script /\ pc \notin {"start", "step1", "step2", "aborted"}

LeftOver(n) == zips[n].by = "earlier run"

\* C21: once Step 2 is over no buddypress-*.zip of an earlier run is left, and
\* build/ is gone when the delegated build starts; so the archive Step 6 finds
\* is Grunt's of this run, and the archives and the build/ of the final report
\* hold nothing of an earlier run.
C21_NothingLeftOver ==
    /\ Cleaned => \A n \in DOMAIN zips : SegMatch("buddypress-*.zip", n) => ~LeftOver(n)
    /\ (Script /\ pc \in {"step3", "gate"}) => ~DirExists(fs, "build")
    /\ (Script /\ pc = "step6" /\ ZipName(VERSION) \in DOMAIN zips) =>
          zips[ZipName(VERSION)].by = "grunt"
    /\ (Script /\ pc \in {"step9", "done"}) =>
          /\ \A n \in {ZipName(VERSION), DevZipName(VERSION)} :
                n \in DOMAIN zips => (~LeftOver(n) /\ "buddypress/old.php" \notin zips[n].entries)
          /\ \A p \in Under(fs, "build") : fs[p] # "stale"

\* Step 6 found the archive Grunt wrote in this run
C21_Witness ==
    /\ Script /\ pc = "done"
    /\ "ZIP file already created by Grunt" \in msgs
    /\ ZipName(VERSION) \in DOMAIN zips /\ zips[ZipName(VERSION)].by = "grunt"

\* no task of Grunt ran twice
RanOnce == \A i, j \in 1..Len(ran) : ran[i] = ran[j] => i = j

\* the steps of the script in their order; Grunt runs within the third
StepOrder ==
    <<"start", "step1", "step2", "step3", "gate", "grunt", "step4", "fallback", "copysrc",
      "step5", "step5b", "step6", "step7", "step8", "step9", "done", "aborted">>

Rank(p) == CHOOSE i \in 1..Len(StepOrder) : StepOrder[i] = p

\* C22: every run ends, at the report with exit 0 or aborted with a non-zero
\* exit; until then it has no exit status, it never goes back to a step it has
\* left, Grunt runs no task twice and the translation step runs the extractor
\* at most twice.
C22_Terminates ==
    /\ [](/\ pc = "done" => exit = 0
          /\ pc = "aborted" => exit > 0
          /\ ~Ended => exit = -1
          /\ RanOnce
          /\ Len(extractorRuns) <= 2)
    /\ [][Rank(pc') >= Rank(pc) /\ (pc' = pc => pc = "grunt")]_vars
    /\ <>Ended

\* the translation step made both attempts and the run went on to its end
C22_Witness ==
    /\ Script /\ pc = "done" /\ exit = 0
    /\ Len(extractorRuns) = 2

=============================================================================
